---------------------------- MODULE Spec2Model ----------------------------
(***************************************************************************)
(* A model of the memory allocator of src/allocator.c.                     *)
(*                                                                         *)
(* Memory is modelled at the level of block headers: mem maps the address  *)
(* of every struct mem_block the allocator has written to its fields; an   *)
(* address the allocator never wrote reads as zero, as a fresh anonymous   *)
(* mapping does.  Addresses are integers and pointer arithmetic is done as *)
(* the C code does it: a mem_block pointer plus 1 advances by              *)
(* sizeof(struct mem_block), a void pointer minus 1 goes back one byte.    *)
(*                                                                         *)
(* allocator.h is not part of the sources: the two struct sizes and the    *)
(* field offsets of struct mem_block are taken from the data model of the  *)
(* specification (section 3).                                              *)
(*                                                                         *)
(* Scope of the inputs: ALLOCATOR_SCRIBBLE is unset, callers do not write  *)
(* to their payload, and the request sizes of Sizes are at least           *)
(* SizeofMemBlock - SizeofMemRegion, so that no two headers overlap and    *)
(* every header lies inside its mapping (checked as HeadersDisjoint).      *)
(***************************************************************************)
EXTENDS Integers, Sequences, FiniteSets, TLC

\* ------------------------------------------------------------ constants
NULL == 0

ALIGN_SZ == 8

\* getpagesize()
PageSize == 4096

\* sizeof(struct mem_block): sequence number, size, free flag, 32-byte tag,
\* previous/next neighbour, next free block
SizeofMemBlock == 80

\* sizeof(struct mem_region): sequence number, mapped length, next region
SizeofMemRegion == 24

\* the offsets of the fields of struct mem_block
OffsetofBlockNumber == 0
OffsetofSize == 8
OffsetofFree == 16
OffsetofName == 24
OffsetofPrevBlock == 56
OffsetofNextBlock == 64
OffsetofNextFree == 72

\* the result of a loop that never ends
HANG == -1

\* ------------------------------------------------------------ bounds
\* calls are taken while fewer than MaxBlocks block sequence numbers are used
MaxBlocks == 3

\* request sizes: a small one, one that uses up a fresh region's tail
\* without a split, one that leaves a fresh region unsplittable
Sizes == {100, 3900, 4000}

Tags == {"x"}

Algorithms == {"first_fit", "best_fit", "worst_fit"}

Threads == {1, 2}

\* threads call malloc_impl while fewer than MaxBlocksConc block sequence
\* numbers are used, with the sizes of SizesConc
MaxBlocksConc == 2

SizesConc == {100, 4000}

VARIABLES
    mem,            \* block address -> struct mem_block fields
    regions,        \* region address -> struct mem_region fields
    mapped,         \* the OS's view: region address -> mapped length
    g_regions,
    g_allocations,
    g_region_head,
    g_region_tail,
    g_free_list,
    rlist_lock,     \* 0, or the thread that holds the mutex
    flist_lock,
    algo,           \* ALLOCATOR_ALGORITHM
    fault,          \* "none", "segv" (the process died), "hang" (it loops forever)
    held,           \* per thread: the pointers it was returned and has not released
    served,         \* payload pointer -> the size of the last request it served
    last,           \* the last completed call: arguments, result, what it did
    pc,             \* per thread: where it is in its call
    loc             \* per thread: the locals of its call

vars == <<mem, regions, mapped, g_regions, g_allocations, g_region_head,
          g_region_tail, g_free_list, rlist_lock, flist_lock, algo, fault,
          held, served, last, pc, loc>>

\* ------------------------------------------------------------ memory
ZeroBlock ==
    [block_number |-> 0, size |-> 0, free |-> FALSE, name |-> "",
     prev_block |-> NULL, next_block |-> NULL, next_free |-> NULL]

\* the header at address a: what was written there, or zeroes
Hdr(m, a) == IF a \in DOMAIN m THEN m[a] ELSE ZeroBlock

Store(m, a, rec) == [x \in DOMAIN m \cup {a} |-> IF x = a THEN rec ELSE m[x]]

\* block + 1, and ptr - 1 as a mem_block pointer
PayloadOf(block) == block + SizeofMemBlock
BlockOf(ptr) == ptr - SizeofMemBlock

\* the address mmap gives the k-th mapping: page-aligned, with an unmapped
\* gap after every mapping
MmapAddr(k) == (k + 1) * 4 * PageSize

\* ------------------------------------------------------------ align
\* align that rounds down
align_Down(orig_sz, alignment) == (orig_sz \div alignment) * alignment

align(orig_sz, alignment) ==
    LET new_sz == (orig_sz \div alignment) * alignment
    IN  IF orig_sz % alignment # 0 THEN new_sz + alignment ELSE new_sz

\* ------------------------------------------------------------ split_block
\* split_block without the update of the block's size, line 78
split_block_KeepsSize(m, ga, block, size) ==
    IF block # NULL /\ size > 0 /\ Hdr(m, block).size > size + SizeofMemBlock
       /\ size >= SizeofMemBlock + ALIGN_SZ
       /\ Hdr(m, block).size - size >= SizeofMemBlock + ALIGN_SZ
    THEN [mem |-> Store(Store(m, block + (Hdr(m, block).size - size),
                              [Hdr(m, block + (Hdr(m, block).size - size)) EXCEPT
                                  !.size = size, !.free = TRUE,
                                  !.block_number = ga, !.prev_block = block,
                                  !.next_block = Hdr(m, block).next_block]),
                        block,
                        [Hdr(m, block) EXCEPT
                            !.next_block = block + (Hdr(m, block).size - size)]),
          g_allocations |-> ga + 1,
          ret |-> block + (Hdr(m, block).size - size)]
    ELSE [mem |-> m, g_allocations |-> ga, ret |-> NULL]

\* split_block without the test of the tail's size, line 64
split_block_NoTailTest(m, ga, block, size) ==
    IF block # NULL /\ size > 0 /\ Hdr(m, block).size > size + SizeofMemBlock
       /\ Hdr(m, block).size - size >= SizeofMemBlock + ALIGN_SZ
    THEN [mem |-> Store(Store(m, block + (Hdr(m, block).size - size),
                              [Hdr(m, block + (Hdr(m, block).size - size)) EXCEPT
                                  !.size = size, !.free = TRUE,
                                  !.block_number = ga, !.prev_block = block,
                                  !.next_block = Hdr(m, block).next_block]),
                        block,
                        [Hdr(m, block) EXCEPT
                            !.next_block = block + (Hdr(m, block).size - size),
                            !.size = Hdr(m, block).size - size]),
          g_allocations |-> ga + 1,
          ret |-> block + (Hdr(m, block).size - size)]
    ELSE [mem |-> m, g_allocations |-> ga, ret |-> NULL]

\* the result: the memory, the block counter and the returned pointer
split_block(m, ga, block, size) ==
    IF block # NULL /\ size > 0 /\ Hdr(m, block).size > size + SizeofMemBlock
    THEN LET updated_sz == Hdr(m, block).size - size
             new_block  == block + (Hdr(m, block).size - size)
         IN  IF size < SizeofMemBlock + ALIGN_SZ
             THEN [mem |-> m, g_allocations |-> ga, ret |-> NULL]
             ELSE IF updated_sz < SizeofMemBlock + ALIGN_SZ
             THEN [mem |-> m, g_allocations |-> ga, ret |-> NULL]
             ELSE LET m1 == Store(m, new_block,
                                  [Hdr(m, new_block) EXCEPT
                                      !.size = size,
                                      !.block_number = ga,
                                      !.free = TRUE,
                                      !.prev_block = block,
                                      !.next_block = Hdr(m, block).next_block])
                      m2 == Store(m1, block,
                                  [Hdr(m1, block) EXCEPT
                                      !.next_block = new_block,
                                      !.size = updated_sz])
                  IN  [mem |-> m2, g_allocations |-> ga + 1, ret |-> new_block]
    ELSE [mem |-> m, g_allocations |-> ga, ret |-> NULL]

\* ------------------------------------------------------------ placement
\* Each search walks the next_free links from the list head.  A walk that
\* comes back to a block it has seen never reaches NULL: the C loop does not
\* end, and the result is HANG.
RECURSIVE FirstFitFrom(_, _, _, _)
FirstFitFrom(m, curr, size, seen) ==
    IF curr = NULL THEN NULL
    ELSE IF Hdr(m, curr).size >= size THEN curr
    ELSE IF curr \in seen THEN HANG
    ELSE FirstFitFrom(m, Hdr(m, curr).next_free, size, seen \cup {curr})

first_fit(m, fl, size) == FirstFitFrom(m, fl, size, {})

RECURSIVE WorstFitFrom(_, _, _, _, _)
WorstFitFrom(m, curr, size, largest_free_region, seen) ==
    IF curr = NULL THEN largest_free_region
    ELSE IF curr \in seen THEN HANG
    ELSE LET take == /\ Hdr(m, curr).size >= size
                     /\ \/ largest_free_region = NULL
                        \/ Hdr(m, largest_free_region).size <= Hdr(m, curr).size
         IN  WorstFitFrom(m, Hdr(m, curr).next_free, size,
                          IF take THEN curr ELSE largest_free_region,
                          seen \cup {curr})

worst_fit(m, fl, size) == WorstFitFrom(m, fl, size, NULL, {})

RECURSIVE BestFitFrom(_, _, _, _, _)
BestFitFrom(m, curr, size, perfect_free_region, seen) ==
    IF curr = NULL THEN perfect_free_region
    ELSE IF curr \in seen THEN HANG
    ELSE LET take == /\ Hdr(m, curr).size >= size
                     /\ \/ perfect_free_region = NULL
                        \/ Hdr(m, perfect_free_region).size >= Hdr(m, curr).size
         IN  BestFitFrom(m, Hdr(m, curr).next_free, size,
                         IF take THEN curr ELSE perfect_free_region,
                         seen \cup {curr})

best_fit(m, fl, size) == BestFitFrom(m, fl, size, NULL, {})

\* the strategy reuse picks for the value of ALLOCATOR_ALGORITHM
Search(m, fl, a, size) ==
    IF a = "first_fit" THEN first_fit(m, fl, size)
    ELSE IF a = "best_fit" THEN best_fit(m, fl, size)
    ELSE IF a = "worst_fit" THEN worst_fit(m, fl, size)
    ELSE NULL

\* ------------------------------------------------------------ reuse
\* The loop that unlinks reused_block when it is not the list head.  Between
\* two writes that change a link the loop visits each block at most once and
\* there are at most as many such writes as blocks, so a loop that has not
\* ended after fuel = (blocks + 1)^2 rounds never ends.
RECURSIVE UnlinkFrom(_, _, _, _)
UnlinkFrom(m, curr, reused_block, fuel) ==
    IF curr = NULL THEN [mem |-> m, hang |-> FALSE]
    ELSE IF fuel = 0 THEN [mem |-> m, hang |-> TRUE]
    ELSE LET m1 == IF Hdr(m, curr).next_free = reused_block
                   THEN Store(m, curr, [Hdr(m, curr) EXCEPT
                              !.next_free = Hdr(m, reused_block).next_free])
                   ELSE m
         IN  UnlinkFrom(m1, Hdr(m1, curr).next_free, reused_block, fuel - 1)

LoopFuel(m) == (Cardinality(DOMAIN m) + 1) * (Cardinality(DOMAIN m) + 1)

\* reuse, lines 249-258: the tail of the split, if there is one, becomes the
\* list head, and the reused block is marked used
PushSplit(m, fl1, split_reused_block, reused_block) ==
    [mem |-> Store(IF fl1 # NULL /\ split_reused_block # NULL
                   THEN Store(m, split_reused_block,
                              [Hdr(m, split_reused_block) EXCEPT !.next_free = fl1])
                   ELSE m,
                   reused_block,
                   [Hdr(m, reused_block) EXCEPT !.free = FALSE]),
     g_free_list |-> IF fl1 = NULL THEN split_reused_block
                     ELSE IF split_reused_block # NULL THEN split_reused_block
                     ELSE fl1]

\* reuse, lines 236-247: reused_block is taken off the list; sp is the result
\* of the split
Unlink(sp, fl, reused_block) ==
    IF fl = reused_block
    THEN [mem |-> sp.mem, hang |-> FALSE,
          g_free_list |-> Hdr(sp.mem, fl).next_free]
    ELSE [mem |-> UnlinkFrom(sp.mem, fl, reused_block, LoopFuel(sp.mem)).mem,
          hang |-> UnlinkFrom(sp.mem, fl, reused_block, LoopFuel(sp.mem)).hang,
          g_free_list |-> fl]

SpliceResult(sp, un, fl, reused_block) ==
    IF un.hang
    THEN [mem |-> un.mem, g_free_list |-> fl,
          g_allocations |-> sp.g_allocations, ret |-> HANG]
    ELSE [mem |-> PushSplit(un.mem, un.g_free_list, sp.ret, reused_block).mem,
          g_free_list |->
              PushSplit(un.mem, un.g_free_list, sp.ret, reused_block).g_free_list,
          g_allocations |-> sp.g_allocations, ret |-> reused_block]

SpliceSplit(sp, fl, reused_block) ==
    SpliceResult(sp, Unlink(sp, fl, reused_block), fl, reused_block)

\* reuse from the split on: reused_block is the (non-null) search result
Splice(m, fl, ga, reused_block, size) ==
    SpliceSplit(split_block(m, ga, reused_block, Hdr(m, reused_block).size - size),
                fl, reused_block)

ReuseFound(m, fl, ga, reused_block, size) ==
    IF reused_block = NULL \/ reused_block = HANG
    THEN [mem |-> m, g_free_list |-> fl, g_allocations |-> ga,
          ret |-> reused_block]
    ELSE Splice(m, fl, ga, reused_block, size)

reuse(m, fl, ga, a, size) ==
    ReuseFound(m, fl, ga, Search(m, fl, a, size), size)

\* ------------------------------------------------------------ the OS
\* the pages of the range [addr, addr + len)
PagesOf(addr, len) ==
    {addr + i * PageSize : i \in 0 .. ((len + PageSize - 1) \div PageSize) - 1}

\* munmap fails (EINVAL) for an address that is not page-aligned and for a
\* zero length, and unmaps the pages of the range otherwise
munmap_ok(addr, len) == addr % PageSize = 0 /\ len > 0

\* ------------------------------------------------------------ malloc_impl
\* The globals a call works on, as one record.
Globals ==
    [mem |-> mem, regions |-> regions, mapped |-> mapped,
     g_regions |-> g_regions, g_allocations |-> g_allocations,
     g_region_head |-> g_region_head, g_region_tail |-> g_region_tail,
     g_free_list |-> g_free_list, rlist_lock |-> rlist_lock,
     flist_lock |-> flist_lock, fault |-> fault]

\* malloc_impl, lines 326-334: the region gets its number and goes to the
\* end of the region list
AppendRegion(G, region, map_sz) ==
    [G EXCEPT
        !.mapped = G.mapped \cup PagesOf(region, map_sz),
        !.regions =
            [x \in DOMAIN G.regions \cup {region} |->
                IF x = region
                THEN [region_number |-> G.g_regions, next_region |-> NULL]
                ELSE IF x = G.g_region_tail
                        /\ ~(G.g_region_head = NULL /\ G.g_region_tail = NULL)
                THEN [G.regions[x] EXCEPT !.next_region = region]
                ELSE G.regions[x]],
        !.g_regions = G.g_regions + 1,
        !.g_region_head = IF G.g_region_head = NULL /\ G.g_region_tail = NULL
                          THEN region ELSE G.g_region_head,
        !.g_region_tail = region]

\* malloc_impl, lines 336-342: the block that spans the region
FirstBlock(G, block, map_sz, name) ==
    [G EXCEPT
        !.mem = Store(G.mem, block,
                      [Hdr(G.mem, block) EXCEPT
                          !.free = FALSE,
                          !.size = map_sz - SizeofMemRegion,
                          !.block_number = G.g_allocations,
                          !.name = name]),
        !.g_allocations = G.g_allocations + 1]

\* malloc_impl, lines 346-351: the tail of the split becomes the list head
PushTail(G, sp, block) ==
    IF G.g_free_list # NULL /\ sp.ret = NULL
    \* new_block->next_free through a null pointer
    THEN [G |-> [G EXCEPT !.mem = sp.mem, !.g_allocations = sp.g_allocations,
                          !.fault = "segv"],
          ret |-> NULL, miss |-> TRUE, refused |-> FALSE]
    ELSE [G |-> [G EXCEPT
                    !.mem = IF G.g_free_list = NULL THEN sp.mem
                            ELSE Store(sp.mem, sp.ret,
                                       [Hdr(sp.mem, sp.ret) EXCEPT
                                           !.next_free = G.g_free_list]),
                    !.g_allocations = sp.g_allocations,
                    !.g_free_list = sp.ret],
          ret |-> PayloadOf(block), miss |-> TRUE, refused |-> FALSE]

\* malloc_impl, line 344: the block is split at actual_sz
SplitFirst(G, block, actual_sz) ==
    PushTail(G, split_block(G.mem, G.g_allocations, block,
                            Hdr(G.mem, block).size - actual_sz), block)

ActualSz(size) == size + SizeofMemRegion

AlignedSz(size) == align(ActualSz(size), ALIGN_SZ)

MapSz(size) == align(AlignedSz(size) + SizeofMemRegion, PageSize)

\* malloc_impl after a free-list miss, between taking the two locks and
\* giving them back.  The result is the globals after it, the returned
\* pointer and what happened.
MapRegion(G, size, name, mmap_ok) ==
    IF ~mmap_ok
    THEN [G |-> G, ret |-> NULL, miss |-> TRUE, refused |-> TRUE]
    ELSE SplitFirst(FirstBlock(AppendRegion(G, MmapAddr(G.g_regions), MapSz(size)),
                               MmapAddr(G.g_regions) + SizeofMemBlock,
                               MapSz(size), name),
                    MmapAddr(G.g_regions) + SizeofMemBlock, ActualSz(size))

\* pthread_mutex_lock on both locks by self, both free; pthread_mutex_unlock
\* on both at the end of a locked section that the process survived
Locked(G, self) == [G EXCEPT !.rlist_lock = self, !.flist_lock = self]

\* Unlocked with the second unlock missing on the path of a refused mapping
Unlocked_RefusalKeepsFlist(r) ==
    IF r.G.fault # "none" THEN r
    ELSE IF "refused" \in DOMAIN r /\ r.refused
    THEN [r EXCEPT !.G.rlist_lock = 0]
    ELSE [r EXCEPT !.G.rlist_lock = 0, !.G.flist_lock = 0]

Unlocked(r) ==
    IF r.G.fault = "none"
    THEN [r EXCEPT !.G.rlist_lock = 0, !.G.flist_lock = 0]
    ELSE r

\* malloc_impl, lines 304-360: ru is the result of reuse
Reused(G, self, size, name, mmap_ok, ru) ==
    IF ru.ret = HANG
    THEN [G |-> [G EXCEPT !.mem = ru.mem, !.fault = "hang"],
          ret |-> NULL, miss |-> FALSE, refused |-> FALSE]
    ELSE IF ru.ret # NULL
    THEN [G |-> [G EXCEPT
                    !.mem = Store(ru.mem, ru.ret,
                                  [Hdr(ru.mem, ru.ret) EXCEPT !.name = name]),
                    !.g_free_list = ru.g_free_list,
                    !.g_allocations = ru.g_allocations],
          ret |-> PayloadOf(ru.ret), miss |-> FALSE, refused |-> FALSE]
    ELSE Unlocked(MapRegion(Locked(G, self), size, name, mmap_ok))

\* a whole call of malloc_impl by thread self, no other thread running; a is
\* the value of ALLOCATOR_ALGORITHM
malloc_impl(G, self, a, size, name, mmap_ok) ==
    Reused(G, self, size, name, mmap_ok,
           reuse(G.mem, G.g_free_list, G.g_allocations, a, AlignedSz(size)))

\* ------------------------------------------------------------ free_impl
\* free_impl, lines 377-385: mark the block free and push it
PushFree(m, fl, block) ==
    [mem |-> IF fl = NULL
             THEN Store(m, block, [Hdr(m, block) EXCEPT !.free = TRUE])
             ELSE Store(m, block, [Hdr(m, block) EXCEPT !.free = TRUE,
                                                        !.next_free = fl]),
     g_free_list |-> block]

\* the range free_impl hands to munmap
UnmapAddr(block) == block - 1
UnmapLen(m, block) == Hdr(m, block).size + SizeofMemRegion

\* free_impl between taking the two locks and giving them back
Unmap(G, addr, len) ==
    [G |-> [G EXCEPT !.mapped = IF munmap_ok(addr, len)
                                THEN G.mapped \ PagesOf(addr, len)
                                ELSE G.mapped],
     unmap |-> <<[addr |-> addr, len |-> len,
                  rc |-> IF munmap_ok(addr, len) THEN 0 ELSE -1]>>]

UnmapRegion(G, ptr) ==
    Unmap(G, UnmapAddr(BlockOf(ptr)), UnmapLen(G.mem, BlockOf(ptr)))

Pushed(G, pf) == [G EXCEPT !.mem = pf.mem, !.g_free_list = pf.g_free_list]

\* a whole call of free_impl by thread self, no other thread running
free_impl(G, self, ptr) ==
    IF ptr = NULL
    THEN [G |-> G, unmap |-> <<>>]
    ELSE Unlocked(UnmapRegion(
             Locked(Pushed(G, PushFree(G.mem, G.g_free_list, BlockOf(ptr))), self),
             ptr))

\* ------------------------------------------------------------ calloc_impl
\* an 8-byte little-endian field whose first nb bytes are set to zero (the
\* values of the model are below 2^31)
ZeroLow(v, nb) ==
    IF nb <= 0 THEN v
    ELSE IF nb >= 4 THEN 0
    ELSE v - (v % (256 ^ nb))

\* the header at a after memset(ptr, 0, n) has written its first k bytes
ZeroHeader(h, k) ==
    [block_number |-> ZeroLow(h.block_number, k - OffsetofBlockNumber),
     size         |-> ZeroLow(h.size, k - OffsetofSize),
     free         |-> IF k > OffsetofFree THEN FALSE ELSE h.free,
     name         |-> IF k > OffsetofName THEN "" ELSE h.name,
     prev_block   |-> ZeroLow(h.prev_block, k - OffsetofPrevBlock),
     next_block   |-> ZeroLow(h.next_block, k - OffsetofNextBlock),
     next_free    |-> ZeroLow(h.next_free, k - OffsetofNextFree)]

\* memset(ptr, 0, n) for a payload pointer: the bytes of the range that lie
\* in headers behind the payload are headers' bytes all the same
memset_zero(m, ptr, n) ==
    [a \in DOMAIN m |->
        IF ptr <= a /\ a < ptr + n THEN ZeroHeader(m[a], ptr + n - a) ELSE m[a]]

\* a range with a page that is not mapped
Unmapped(pages, addr, len) ==
    \E a \in PagesOf(addr - (addr % PageSize), len + (addr % PageSize)) :
        a \notin pages

\* calloc_impl, line 416: r is the result of malloc_impl, n the length.
\* crossing: what a write to an unmapped page of the range does, "segv", or
\* "none" when the page belongs to a mapping that is not the allocator's
ZeroFill(r, n, crossing) ==
    IF r.G.fault # "none" THEN r
    ELSE IF r.ret = NULL
    \* memset through the null pointer
    THEN IF n > 0 THEN [r EXCEPT !.G.fault = "segv"] ELSE r
    ELSE IF Unmapped(r.G.mapped, r.ret, n) /\ crossing = "segv"
    THEN [r EXCEPT !.G.fault = "segv", !.ret = NULL]
    ELSE [r EXCEPT !.G.mem = memset_zero(r.G.mem, r.ret, n)]

calloc_impl(G, self, a, nmemb, size, name, mmap_ok, crossing) ==
    ZeroFill(malloc_impl(G, self, a, nmemb * size, name, mmap_ok),
             nmemb * size, crossing)

\* ------------------------------------------------------------ realloc_impl
\* what a call did, for a call of malloc_impl and for a call of free_impl
Allocated(r) ==
    [G |-> r.G, ret |-> r.ret, miss |-> r.miss, refused |-> r.refused,
     unmap |-> <<>>]

Released(r) ==
    [G |-> r.G, ret |-> NULL, miss |-> FALSE, refused |-> FALSE,
     unmap |-> r.unmap]

\* realloc_impl without the call of free_impl for a size of 0
realloc_impl_NoRelease(G, self, a, ptr, size, name, mmap_ok) ==
    IF ptr = NULL
    THEN Allocated(malloc_impl(G, self, a, size, name, mmap_ok))
    ELSE [G |-> G, ret |-> NULL, miss |-> FALSE, refused |-> FALSE,
          unmap |-> <<>>]

realloc_impl(G, self, a, ptr, size, name, mmap_ok) ==
    IF ptr = NULL
    THEN Allocated(malloc_impl(G, self, a, size, name, mmap_ok))
    ELSE IF size = 0
    THEN Released(free_impl(G, self, ptr))
    ELSE [G |-> G, ret |-> NULL, miss |-> FALSE, refused |-> FALSE,
          unmap |-> <<>>]

\* ------------------------------------------------------------ the free list
\* the blocks reached from the list head through next_free, in order, up to
\* NULL or to the first block reached twice
RECURSIVE FreeWalk(_, _, _)
FreeWalk(m, curr, seen) ==
    IF curr = NULL \/ curr \in seen THEN <<>>
    ELSE <<curr>> \o FreeWalk(m, Hdr(m, curr).next_free, seen \cup {curr})

FreeSeq == FreeWalk(mem, g_free_list, {})

RECURSIVE WalkEnds(_, _, _)
WalkEnds(m, curr, seen) ==
    IF curr = NULL THEN TRUE
    ELSE IF curr \in seen THEN FALSE
    ELSE WalkEnds(m, Hdr(m, curr).next_free, seen \cup {curr})

Range(seq) == {seq[i] : i \in 1 .. Len(seq)}

\* ------------------------------------------------------------ the calls
Idle == \A t \in Threads : pc[t] = "idle"

NoCall ==
    [op |-> "none", tid |-> 0, size |-> 0, ptr |-> NULL, name |-> "",
     reused |-> NULL, ret |-> NULL, miss |-> FALSE, refused |-> FALSE,
     reheld |-> FALSE, unmap |-> <<>>]

Init ==
    /\ mem = << >>
    /\ regions = << >>
    /\ mapped = {}
    /\ g_regions = 0
    /\ g_allocations = 0
    /\ g_region_head = NULL
    /\ g_region_tail = NULL
    /\ g_free_list = NULL
    /\ rlist_lock = 0
    /\ flist_lock = 0
    /\ algo \in Algorithms
    /\ fault = "none"
    /\ held = [t \in Threads |-> {}]
    /\ served = << >>
    /\ last = NoCall
    /\ pc = [t \in Threads |-> "idle"]
    /\ loc = [t \in Threads |-> NoCall]

\* the globals become those of G
Become(G) ==
    /\ mem' = G.mem
    /\ regions' = G.regions
    /\ mapped' = G.mapped
    /\ g_regions' = G.g_regions
    /\ g_allocations' = G.g_allocations
    /\ g_region_head' = G.g_region_head
    /\ g_region_tail' = G.g_region_tail
    /\ g_free_list' = G.g_free_list
    /\ rlist_lock' = G.rlist_lock
    /\ flist_lock' = G.flist_lock
    /\ fault' = G.fault

AllHeld == UNION {held[t] : t \in Threads}

\* the caller holds what a call returned, unless the process died in it
Holding(h, t, f, ret) ==
    IF f = "none" /\ ret # NULL THEN [h EXCEPT ![t] = h[t] \cup {ret}] ELSE h

\* the request sizes served, after a call for size returned ret
Serving(sv, f, ret, size) ==
    IF f = "none" /\ ret # NULL
    THEN [x \in DOMAIN sv \cup {ret} |-> IF x = ret THEN size ELSE sv[x]]
    ELSE sv

\* a call returned a pointer that a caller still holds
Reheld(f, ret) == f = "none" /\ ret # NULL /\ ret \in AllHeld

Ready == fault = "none" /\ Idle

\* calls that may create blocks are taken while the counter is below the bound
MayAllocate == Ready /\ g_allocations < MaxBlocks

\* mmap is called, and the OS may refuse, only after a free-list miss
MmapAnswers(size) ==
    IF Search(mem, g_free_list, algo, AlignedSz(size)) = NULL
    THEN BOOLEAN ELSE {TRUE}

\* thread t's call op(ptr, size, name) did r and returns, with no other call
\* in progress; the caller gives up the pointers of released
Complete(op, t, ptr, size, name, r, released) ==
    /\ Become(r.G)
    /\ held' = Holding([held EXCEPT ![t] = held[t] \ released], t, r.G.fault, r.ret)
    /\ served' = Serving(served, r.G.fault, r.ret, size)
    /\ last' = [NoCall EXCEPT !.op = op, !.tid = t, !.ptr = ptr, !.size = size,
                   !.name = name, !.ret = r.ret, !.miss = r.miss,
                   !.refused = r.refused, !.unmap = r.unmap,
                   !.reheld = Reheld(r.G.fault, r.ret)]
    /\ UNCHANGED <<algo, pc, loc>>

\* malloc_impl(size, name), called with no other call in progress
Malloc ==
    \E size \in Sizes, name \in Tags : \E mmap_ok \in MmapAnswers(size) :
        /\ MayAllocate
        /\ Complete("malloc", 1, NULL, size, name,
                    Allocated(malloc_impl(Globals, 1, algo, size, name, mmap_ok)),
                    {})

\* free_impl(ptr) of a null pointer or of a pointer the caller holds
Free ==
    \E ptr \in held[1] \cup {NULL} :
        /\ Ready
        /\ Complete("free", 1, ptr, 0, "", Released(free_impl(Globals, 1, ptr)),
                    {ptr})

\* realloc_impl(ptr, size, name): a null pointer with a size of Sizes, a held
\* pointer with size 0 or with a size that is not 0
ReallocSizes(ptr) == IF ptr = NULL THEN Sizes ELSE {0, 100}

Realloc ==
    \E ptr \in held[1] \cup {NULL}, name \in Tags :
    \E size \in ReallocSizes(ptr) :
    \E mmap_ok \in (IF ptr = NULL THEN MmapAnswers(size) ELSE {TRUE}) :
        /\ IF ptr = NULL THEN MayAllocate ELSE Ready
        /\ Complete("realloc", 1, ptr, size, name,
                    realloc_impl(Globals, 1, algo, ptr, size, name, mmap_ok),
                    IF ptr # NULL /\ size = 0 THEN {ptr} ELSE {})

\* calloc_impl(nmemb, size, name)
CallocArgs == {<<1, 100>>, <<2, 50>>, <<1, 3900>>, <<1, 4000>>}

Calloc ==
    \E args \in CallocArgs, name \in Tags, crossing \in {"segv", "none"} :
    \E mmap_ok \in MmapAnswers(args[1] * args[2]) :
        /\ MayAllocate
        /\ Complete("calloc", 1, NULL, args[1] * args[2], name,
                    Allocated(calloc_impl(Globals, 1, algo, args[1], args[2],
                                          name, mmap_ok, crossing)),
                    {})

\* allocate and release
Next == Malloc \/ Free

Spec == Init /\ [][Next]_vars

\* resize, which allocates and releases too
NextResize == Realloc

SpecResize == Init /\ [][NextResize]_vars

\* allocate, release and bulk_allocate
NextBulk == Malloc \/ Free \/ Calloc

SpecBulk == Init /\ [][NextBulk]_vars

\* ------------------------------------------------------------ threads
\* Threads call malloc_impl and free_impl concurrently.  A call is a sequence
\* of steps; the steps of different threads interleave.  The search of
\* reuse, the rest of reuse and the push of free_impl run without a lock.
Running == fault = "none"

\* the call of thread t returns ret
Return(t, ret) ==
    /\ pc' = [pc EXCEPT ![t] = "idle"]
    /\ last' = [loc[t] EXCEPT !.ret = ret, !.reheld = Reheld("none", ret)]
    /\ held' = Holding(held, t, "none", ret)
    /\ served' = Serving(served, "none", ret, loc[t].size)
    /\ loc' = [loc EXCEPT ![t] = NoCall]

CallMalloc(t) ==
    \E size \in SizesConc, name \in Tags :
        /\ Running /\ pc[t] = "idle" /\ g_allocations < MaxBlocksConc
        /\ pc' = [pc EXCEPT ![t] = "reuse"]
        /\ loc' = [loc EXCEPT ![t] = [NoCall EXCEPT !.op = "malloc", !.tid = t,
                                         !.size = size, !.name = name]]
        /\ UNCHANGED <<mem, regions, mapped, g_regions, g_allocations,
                       g_region_head, g_region_tail, g_free_list, rlist_lock,
                       flist_lock, algo, fault, held, served, last>>

\* reuse, lines 217-233: the search of the free list
ReuseSearch(t) ==
    \E reused_block \in {Search(mem, g_free_list, algo, AlignedSz(loc[t].size))} :
        /\ Running /\ pc[t] = "reuse"
        /\ fault' = IF reused_block = HANG THEN "hang" ELSE fault
        /\ pc' = [pc EXCEPT ![t] = IF reused_block = NULL THEN "lock_rlist"
                                   ELSE "splice"]
        /\ loc' = [loc EXCEPT ![t].reused = reused_block,
                              ![t].miss = (reused_block = NULL)]
        /\ UNCHANGED <<mem, regions, mapped, g_regions, g_allocations,
                       g_region_head, g_region_tail, g_free_list, rlist_lock,
                       flist_lock, algo, held, served, last>>

\* reuse, lines 235-260, and malloc_impl, lines 304-310; ru is the result of
\* reuse from the split on
Spliced(t, ru) ==
    /\ g_allocations' = ru.g_allocations
    /\ IF ru.ret = HANG
       THEN /\ fault' = "hang"
            /\ mem' = ru.mem
            /\ UNCHANGED <<g_free_list, pc, loc, last, held, served>>
       ELSE /\ mem' = Store(ru.mem, ru.ret,
                            [Hdr(ru.mem, ru.ret) EXCEPT !.name = loc[t].name])
            /\ g_free_list' = ru.g_free_list
            /\ Return(t, PayloadOf(ru.ret))
            /\ UNCHANGED fault

ReuseSplice(t) ==
    /\ Running /\ pc[t] = "splice"
    /\ Spliced(t, Splice(mem, g_free_list, g_allocations, loc[t].reused,
                         AlignedSz(loc[t].size)))
    /\ UNCHANGED <<regions, mapped, g_regions, g_region_head, g_region_tail,
                   rlist_lock, flist_lock, algo>>

\* pthread_mutex_lock(&rlist_lock)
LockRlist(t) ==
    /\ Running /\ pc[t] = "lock_rlist" /\ rlist_lock = 0
    /\ rlist_lock' = t
    /\ pc' = [pc EXCEPT ![t] = "lock_flist"]
    /\ UNCHANGED <<mem, regions, mapped, g_regions, g_allocations,
                   g_region_head, g_region_tail, g_free_list, flist_lock,
                   algo, fault, held, served, last, loc>>

\* pthread_mutex_lock(&flist_lock)
LockFlist(t) ==
    /\ Running /\ pc[t] = "lock_flist" /\ flist_lock = 0
    /\ flist_lock' = t
    /\ pc' = [pc EXCEPT ![t] = IF loc[t].op = "malloc" THEN "mmap" ELSE "munmap"]
    /\ UNCHANGED <<mem, regions, mapped, g_regions, g_allocations,
                   g_region_head, g_region_tail, g_free_list, rlist_lock,
                   algo, fault, held, served, last, loc>>

\* the locked section of thread t did r
Sectioned(t, r) ==
    /\ Become(r.G)
    /\ pc' = [pc EXCEPT ![t] = "unlock_rlist"]
    /\ UNCHANGED <<algo, held, served, last>>

\* malloc_impl, lines 315-355
Mmap(t) ==
    \E mmap_ok \in BOOLEAN :
        /\ Running /\ pc[t] = "mmap"
        /\ Sectioned(t, MapRegion(Globals, loc[t].size, loc[t].name, mmap_ok))
        /\ loc' = [loc EXCEPT
                      ![t].ret = IF mmap_ok /\ fault' = "none"
                                 THEN PayloadOf(g_region_tail' + SizeofMemBlock)
                                 ELSE NULL,
                      ![t].refused = ~mmap_ok]

\* free_impl, lines 390-397
Munmap(t) ==
    /\ Running /\ pc[t] = "munmap"
    /\ Sectioned(t, UnmapRegion(Globals, loc[t].ptr))
    /\ loc' = [loc EXCEPT ![t].unmap =
                  <<[addr |-> UnmapAddr(BlockOf(loc[t].ptr)),
                     len |-> UnmapLen(mem, BlockOf(loc[t].ptr)),
                     rc |-> IF mapped' = mapped THEN -1 ELSE 0]>>]

\* pthread_mutex_unlock(&rlist_lock)
UnlockRlist(t) ==
    /\ Running /\ pc[t] = "unlock_rlist"
    /\ rlist_lock' = 0
    /\ pc' = [pc EXCEPT ![t] = "unlock_flist"]
    /\ UNCHANGED <<mem, regions, mapped, g_regions, g_allocations,
                   g_region_head, g_region_tail, g_free_list, flist_lock,
                   algo, fault, held, served, last, loc>>

\* pthread_mutex_unlock(&flist_lock) and the return
UnlockFlist(t) ==
    /\ Running /\ pc[t] = "unlock_flist"
    /\ flist_lock' = 0
    /\ Return(t, loc[t].ret)
    /\ UNCHANGED <<mem, regions, mapped, g_regions, g_allocations,
                   g_region_head, g_region_tail, g_free_list, rlist_lock,
                   algo, fault>>

\* free_impl(ptr) of a pointer the thread holds; it gives the pointer up
CallFree(t) ==
    \E ptr \in held[t] :
        /\ Running /\ pc[t] = "idle"
        /\ pc' = [pc EXCEPT ![t] = "push"]
        /\ loc' = [loc EXCEPT ![t] = [NoCall EXCEPT !.op = "free", !.tid = t,
                                         !.ptr = ptr]]
        /\ held' = [held EXCEPT ![t] = held[t] \ {ptr}]
        /\ UNCHANGED <<served, mem, regions, mapped, g_regions, g_allocations,
                       g_region_head, g_region_tail, g_free_list, rlist_lock,
                       flist_lock, algo, fault, last>>

\* free_impl, lines 377-385
PushFreeBlock(t) ==
    /\ Running /\ pc[t] = "push"
    /\ mem' = PushFree(mem, g_free_list, BlockOf(loc[t].ptr)).mem
    /\ g_free_list' = PushFree(mem, g_free_list, BlockOf(loc[t].ptr)).g_free_list
    /\ pc' = [pc EXCEPT ![t] = "lock_rlist"]
    /\ UNCHANGED <<regions, mapped, g_regions, g_allocations,
                   g_region_head, g_region_tail, rlist_lock, flist_lock,
                   algo, fault, held, served, last, loc>>

NextConc ==
    \E t \in Threads :
        \/ CallMalloc(t)
        \/ ReuseSearch(t)
        \/ ReuseSplice(t)
        \/ LockRlist(t)
        \/ LockFlist(t)
        \/ Mmap(t)
        \/ Munmap(t)
        \/ UnlockRlist(t)
        \/ UnlockFlist(t)
        \/ CallFree(t)
        \/ PushFreeBlock(t)

\* ALLOCATOR_ALGORITHM is not set
InitConc == Init /\ algo = "first_fit"

SpecConc == InitConc /\ [][NextConc]_vars

\* ------------------------------------------------------------ scope
\* the region a header address lies in
RegionOf(a) == CHOOSE r \in DOMAIN regions : r <= a /\ a < r + 4 * PageSize

\* No two headers overlap, every header lies in the pages of its region's
\* mapping, and no page was ever unmapped: the reads and writes of headers
\* the model makes are reads and writes of mapped memory that belongs to one
\* header only.
HeadersDisjoint ==
    /\ \A a, b \in DOMAIN mem : a # b => (a + SizeofMemBlock <= b \/ b + SizeofMemBlock <= a)
    /\ \A a \in DOMAIN mem :
          /\ \E r \in DOMAIN regions : r + SizeofMemRegion <= a /\ a < r + 4 * PageSize
          /\ ~Unmapped(mapped, a, SizeofMemBlock)
    /\ mapped = UNION {PagesOf(MmapAddr(k), PageSize) : k \in 0 .. g_regions - 1}

\* ------------------------------------------------------------ claims
\* the globals after a step
GlobalsNext ==
    [mem |-> mem', regions |-> regions', mapped |-> mapped',
     g_regions |-> g_regions', g_allocations |-> g_allocations',
     g_region_head |-> g_region_head', g_region_tail |-> g_region_tail',
     g_free_list |-> g_free_list', rlist_lock |-> rlist_lock',
     flist_lock |-> flist_lock', fault |-> fault']

\* the free list ends, and every block on it is free
FreeListSound ==
    /\ WalkEnds(mem, g_free_list, {})
    /\ \A b \in Range(FreeSeq) : Hdr(mem, b).free

\* C1: in single-threaded use, after any sequence of allocate and release
\* calls that releases held pointers only, every block reached from the
\* free-list head through the free-list links is marked free, and allocate
\* never returns a block that a caller still holds.
C1_FreeListBlocksAreFree ==
    /\ \A b \in Range(FreeSeq) : Hdr(mem, b).free
    /\ last.op = "malloc" => ~last.reheld

\* C2: when two threads call allocate concurrently, the two calls return
\* different blocks: no pointer is held by both threads.
C2_ConcurrentAllocateDistinct ==
    \A t1, t2 \in Threads : t1 # t2 => held[t1] \cap held[t2] = {}

\* C3: the block that allocate(size, tag) returns is at least size plus the
\* block header long, so that the payload lies inside the block.
C3_PayloadInsideBlock ==
    (last.op = "malloc" /\ last.ret # NULL /\ fault = "none")
        => Hdr(mem, BlockOf(last.ret)).size >= last.size + SizeofMemBlock

\* C4: when the free list holds a block that was served for allocate(s) and
\* released since, allocate(s') with s' <= s is served from the free list and
\* creates no new region.
C4_ReleasedBlockIsReused ==
    [][(/\ last'.op = "malloc"
        /\ ~last'.refused
        /\ FreeListSound
        /\ \E b \in Range(FreeSeq) :
              /\ PayloadOf(b) \in DOMAIN served
              /\ PayloadOf(b) \notin AllHeld
              /\ last'.size <= served[PayloadOf(b)])
       => (~last'.miss /\ g_regions' = g_regions)]_vars

\* C5: when the OS refuses the mapping after a free-list miss, allocate
\* returns null, leaves the region list, the free list, the blocks and both
\* sequence counters as they were, and holds neither lock on return.
C5_RefusalLeavesStateUnchanged ==
    [][(last'.op = "malloc" /\ last'.refused)
       => (/\ last'.ret = NULL
           /\ fault' = "none"
           /\ regions' = regions
           /\ mapped' = mapped
           /\ g_region_head' = g_region_head
           /\ g_region_tail' = g_region_tail
           /\ g_free_list' = g_free_list
           /\ mem' = mem
           /\ g_regions' = g_regions
           /\ g_allocations' = g_allocations
           /\ rlist_lock' = 0
           /\ flist_lock' = 0)]_vars

C5_Witness ==
    /\ last.op = "malloc" /\ last.refused /\ last.ret = NULL
    /\ g_regions > 0

\* C6: bulk_allocate never zero-fills a null result: when the underlying
\* allocate returns null for a refused mapping, bulk_allocate returns null
\* and the process has not written through the null pointer.
C6_NoZeroFillOfNull ==
    (last.op = "calloc" /\ last.refused) => fault = "none"

\* C7: release(null) changes no allocator state; release(p) of a held pointer
\* marks p's block free and makes it the head of the free list, followed by
\* exactly the blocks that were on the list before, in their order.
C7_ReleasePushesOnFreeList ==
    [][(last'.op = "free")
       => IF last'.ptr = NULL
          THEN GlobalsNext = Globals
          ELSE /\ Hdr(mem', BlockOf(last'.ptr)).free
               /\ FreeSeq' = <<BlockOf(last'.ptr)>> \o FreeSeq]_vars

SearchSizes == {AlignedSz(size) : size \in Sizes}

\* the places of the free list whose block has a size of at least size
Qualifying(size) ==
    {i \in 1 .. Len(FreeSeq) : Hdr(mem, FreeSeq[i]).size >= size}

\* C9: best-fit returns, among the free-list blocks whose size is at least
\* the requested size, one of smallest size, the one nearest the list head
\* among these; it returns no candidate when none qualifies.
C9_BestFitSmallestEarliest ==
    FreeListSound =>
        \A size \in SearchSizes :
            LET Q == Qualifying(size)
                r == best_fit(mem, g_free_list, size)
            IN  IF Q = {} THEN r = NULL
                ELSE \E i \in Q :
                        /\ r = FreeSeq[i]
                        /\ \A k \in Q :
                              Hdr(mem, FreeSeq[i]).size <= Hdr(mem, FreeSeq[k]).size
                        /\ \A k \in Q :
                              Hdr(mem, FreeSeq[k]).size = Hdr(mem, FreeSeq[i]).size
                                  => i <= k

\* C10: worst-fit returns, among the free-list blocks whose size is at least
\* the requested size, one of largest size, the one nearest the list head
\* among these; it returns no candidate when none qualifies.
C10_WorstFitLargestEarliest ==
    FreeListSound =>
        \A size \in SearchSizes :
            LET Q == Qualifying(size)
                r == worst_fit(mem, g_free_list, size)
            IN  IF Q = {} THEN r = NULL
                ELSE \E i \in Q :
                        /\ r = FreeSeq[i]
                        /\ \A k \in Q :
                              Hdr(mem, FreeSeq[i]).size >= Hdr(mem, FreeSeq[k]).size
                        /\ \A k \in Q :
                              Hdr(mem, FreeSeq[k]).size = Hdr(mem, FreeSeq[i]).size
                                  => i <= k

\* C11: first-fit returns the block nearest the free-list head whose size is
\* at least the requested size, and returns no candidate exactly when no
\* block of the free list qualifies.  (first_fit writes nothing: its result
\* is a pointer only.)
C11_FirstFitNearestQualifying ==
    algo = "first_fit" =>
        \A size \in SearchSizes :
            LET Q == Qualifying(size)
                r == first_fit(mem, g_free_list, size)
            IN  IF Q = {} THEN r = NULL
                ELSE \E i \in Q : r = FreeSeq[i] /\ \A k \in Q : i <= k

\* ------------------------------------------------------------ split_block, called directly
\* the tail sizes split_block is asked for on block: around the two limits
SplitArgs(block) ==
    {t \in {0, SizeofMemBlock + ALIGN_SZ - 1, SizeofMemBlock + ALIGN_SZ, 128,
            Hdr(mem, block).size - (SizeofMemBlock + ALIGN_SZ),
            Hdr(mem, block).size - (SizeofMemBlock + ALIGN_SZ) + 1,
            Hdr(mem, block).size - SizeofMemBlock,
            Hdr(mem, block).size} : t >= 0}

\* split_block(block, size) did sp
SplitDone(block, size, sp) ==
    /\ mem' = sp.mem
    /\ g_allocations' = sp.g_allocations
    /\ last' = [NoCall EXCEPT !.op = "split", !.ptr = block, !.size = size,
                              !.ret = sp.ret]

\* split_block(block, size) on a block of the allocator whose tail header
\* lies in mapped memory, or on a null pointer
Split ==
    \E block \in DOMAIN mem \cup {NULL} : \E size \in SplitArgs(block) :
        /\ MayAllocate
        /\ ~Unmapped(mapped, block + (Hdr(mem, block).size - size), SizeofMemBlock)
              \/ block = NULL
        /\ SplitDone(block, size, split_block(mem, g_allocations, block, size))
        /\ UNCHANGED <<regions, mapped, g_regions, g_region_head, g_region_tail,
                       g_free_list, rlist_lock, flist_lock, algo, fault, held,
                       served, pc, loc>>

\* allocate, and split_block on the blocks it made
NextSplit == Malloc \/ Split

SpecSplit == Init /\ [][NextSplit]_vars

\* C12: split_block(b, t) succeeds exactly when t and b.size - t are each at
\* least one block header plus one alignment unit; then the tail has size t,
\* b has its old size less t, and the two sizes sum to b's old size;
\* otherwise it returns NULL and leaves b as it was.
C12_SplitExactlyWhenBothFit ==
    [][(last'.op = "split" /\ last'.ptr # NULL)
       => IF /\ last'.size >= SizeofMemBlock + ALIGN_SZ
             /\ Hdr(mem, last'.ptr).size - last'.size >= SizeofMemBlock + ALIGN_SZ
          THEN /\ last'.ret # NULL
               /\ Hdr(mem', last'.ret).size = last'.size
               /\ Hdr(mem', last'.ptr).size = Hdr(mem, last'.ptr).size - last'.size
               /\ Hdr(mem', last'.ret).size + Hdr(mem', last'.ptr).size
                     = Hdr(mem, last'.ptr).size
          ELSE /\ last'.ret = NULL
               /\ mem' = mem]_vars

C12_Witness ==
    /\ last.op = "split" /\ last.ret # NULL
    /\ last.size = SizeofMemBlock + ALIGN_SZ

\* ------------------------------------------------------------ merge_block
\* the loop of lines 119-124: block is merged into its free previous
\* neighbours.  The result is the memory and the block the loop ends on, or
\* HANG for a loop that does not end.
RECURSIVE MergePrev(_, _, _, _)
MergePrev(m, block, prev_merge, fuel) ==
    IF prev_merge # NULL /\ Hdr(m, prev_merge).free
    THEN IF fuel = 0 THEN [mem |-> m, block |-> HANG]
         ELSE MergePrev(Store(m, prev_merge,
                              [Hdr(m, prev_merge) EXCEPT
                                  !.size = @ + Hdr(m, block).size,
                                  !.next_block = Hdr(m, block).next_block]),
                        prev_merge, Hdr(m, prev_merge).prev_block, fuel - 1)
    ELSE [mem |-> m, block |-> block]

\* the loop of lines 127-132: the free next neighbours take the block's size
\* and previous neighbour
RECURSIVE MergeNext(_, _, _, _)
MergeNext(m, block, next_merge, fuel) ==
    IF next_merge # NULL /\ Hdr(m, next_merge).free
    THEN IF fuel = 0 THEN [mem |-> m, ret |-> HANG]
         ELSE MergeNext(Store(m, next_merge,
                              [Hdr(m, next_merge) EXCEPT
                                  !.size = @ + Hdr(m, block).size,
                                  !.prev_block = Hdr(m, block).prev_block]),
                        next_merge, Hdr(m, next_merge).next_block, fuel - 1)
    ELSE [mem |-> m, ret |-> block]

\* line 126, after the first loop
MergeNextOf(mp, fuel) ==
    IF mp.block = HANG THEN [mem |-> mp.mem, ret |-> HANG]
    ELSE MergeNext(mp.mem, mp.block, Hdr(mp.mem, mp.block).next_block, fuel)

merge_block(m, block) ==
    IF ~Hdr(m, block).free
    THEN [mem |-> m, ret |-> NULL]
    ELSE MergeNextOf(MergePrev(m, block, Hdr(m, block).prev_block, LoopFuel(m)),
                     LoopFuel(m))

\* merge_block(block) did mg
MergeDone(block, mg) ==
    /\ mem' = mg.mem
    /\ fault' = IF mg.ret = HANG THEN "hang" ELSE fault
    /\ last' = [NoCall EXCEPT !.op = "merge", !.ptr = block, !.ret = mg.ret]

\* block sizes up to which merge_block is called
MaxSize == 4096

\* merge_block(block) on a block of the allocator
Merge ==
    \E block \in DOMAIN mem :
        /\ Ready
        /\ \A a \in DOMAIN mem : Hdr(mem, a).size <= MaxSize
        /\ MergeDone(block, merge_block(mem, block))
        /\ UNCHANGED <<regions, mapped, g_regions, g_allocations, g_region_head,
                       g_region_tail, g_free_list, rlist_lock, flist_lock, algo,
                       held, served, pc, loc>>

\* allocate and release, then calls of merge_block on the blocks they left
NextMerge == (last.op # "merge" /\ (Malloc \/ Free)) \/ Merge

SpecMerge == Init /\ [][NextMerge]_vars

\* ------------------------------------------------------------ the block chain of a region
\* the first block of a region, as malloc_impl places it (line 336)
FirstBlockOf(region) == region + SizeofMemBlock

\* the blocks reached from curr through next_block, in order, up to NULL or
\* to the first block reached twice
RECURSIVE ChainWalk(_, _, _)
ChainWalk(m, curr, seen) ==
    IF curr = NULL \/ curr \in seen THEN <<>>
    ELSE <<curr>> \o ChainWalk(m, Hdr(m, curr).next_block, seen \cup {curr})

RegionChain(m, region) == ChainWalk(m, FirstBlockOf(region), {})

RECURSIVE SumSizes(_, _)
SumSizes(m, chain) ==
    IF chain = <<>> THEN 0
    ELSE Hdr(m, Head(chain)).size + SumSizes(m, Tail(chain))

\* the length of the mapping of a region (every mapping of the model is
\* shorter than the 4 pages between two mappings), and the length less the
\* region header
MappedLength(region) ==
    PageSize * Cardinality({pg \in mapped : region <= pg /\ pg < region + 4 * PageSize})

UsableLength(region) == MappedLength(region) - SizeofMemRegion

\* every block of the chain is its next block's previous block, and the
\* first block has none
LinksBack(m, chain) ==
    /\ chain # <<>> => Hdr(m, chain[1]).prev_block = NULL
    /\ \A i \in 1 .. Len(chain) - 1 : Hdr(m, chain[i + 1]).prev_block = chain[i]

\* every block of the chain ends where the next one starts
Contiguous(m, chain) ==
    \A i \in 1 .. Len(chain) - 1 : chain[i] + Hdr(m, chain[i]).size = chain[i + 1]

\* the place of block in the chain
IndexOf(chain, block) == CHOOSE i \in 1 .. Len(chain) : chain[i] = block

\* the first and the last place of the maximal run of free blocks around
\* place i of the chain
RunStart(m, chain, i) ==
    CHOOSE lo \in 1 .. i :
        /\ \A k \in lo .. i : Hdr(m, chain[k]).free
        /\ lo > 1 => ~Hdr(m, chain[lo - 1]).free

RunEnd(m, chain, i) ==
    CHOOSE hi \in i .. Len(chain) :
        /\ \A k \in i .. hi : Hdr(m, chain[k]).free
        /\ hi < Len(chain) => ~Hdr(m, chain[hi + 1]).free

\* the chain with the run from lo to hi collapsed into the block at lo
Collapsed(chain, lo, hi) ==
    SubSeq(chain, 1, lo) \o SubSeq(chain, hi + 1, Len(chain))

\* the region chain of block's region is sound: it holds block, its links
\* agree in both directions, its blocks are contiguous and their sizes sum
\* to the usable length
ChainSound(m, block) ==
    /\ \E r \in DOMAIN regions : r <= block /\ block < r + 4 * PageSize
    /\ block \in Range(RegionChain(m, RegionOf(block)))
    /\ LinksBack(m, RegionChain(m, RegionOf(block)))
    /\ Contiguous(m, RegionChain(m, RegionOf(block)))
    /\ SumSizes(m, RegionChain(m, RegionOf(block))) = UsableLength(RegionOf(block))

\* C13: merge_block(b) on a free block b of a sound region chain leaves the
\* chain with one block in place of the maximal run of contiguous free blocks
\* around b: it starts where the run started, its size is the sum of the
\* run's sizes, its links are the run's outer neighbours, which link back to
\* it, and the sizes of the chain still sum to the region's usable length.
C13_MergeCollapsesFreeRun ==
    [][(/\ last'.op = "merge" /\ last.op # "merge"
        /\ Hdr(mem, last'.ptr).free
        /\ ChainSound(mem, last'.ptr))
       => LET r == RegionOf(last'.ptr)
              c == RegionChain(mem, r)
              i == IndexOf(c, last'.ptr)
              lo == RunStart(mem, c, i)
              hi == RunEnd(mem, c, i)
          IN  /\ RegionChain(mem', r) = Collapsed(c, lo, hi)
              /\ Hdr(mem', c[lo]).size = SumSizes(mem, SubSeq(c, lo, hi))
              /\ LinksBack(mem', Collapsed(c, lo, hi))
              /\ SumSizes(mem', RegionChain(mem', r)) = UsableLength(r)]_vars

\* ------------------------------------------------------------ align, called directly
\* the sizes and the granularities align is called with
AlignSizes == (0 .. 40) \cup (4090 .. 4100)

Granularities == (1 .. 9) \cup {PageSize}

\* align(orig_sz, alignment) returned ret
Align ==
    \E orig_sz \in AlignSizes, alignment \in Granularities :
        /\ Ready
        /\ last' = [NoCall EXCEPT !.op = "align", !.size = orig_sz,
                                  !.ptr = alignment,
                                  !.ret = align(orig_sz, alignment)]
        /\ UNCHANGED <<mem, regions, mapped, g_regions, g_allocations,
                       g_region_head, g_region_tail, g_free_list, rlist_lock,
                       flist_lock, algo, fault, held, served, pc, loc>>

NextAlign == Align

SpecAlign == Init /\ [][NextAlign]_vars

\* C14: for all sizes s >= 0 and granularities g > 0, align(s, g) is a
\* multiple of g and align(s, g) - g < s <= align(s, g).
C14_AlignRoundsUp ==
    last.op = "align" =>
        /\ last.ret % last.ptr = 0
        /\ last.ret - last.ptr < last.size
        /\ last.size <= last.ret

C14_Witness ==
    /\ last.op = "align" /\ last.size = 13 /\ last.ptr = 8 /\ last.ret = 16

LockOrder ==
    \A t \in Threads :
        flist_lock = t => (rlist_lock = t \/ pc[t] = "unlock_flist")

\* C16: in every interleaving of concurrent allocate and release calls the
\* locks are taken in the order region-list lock, free-list lock, and no
\* call is in a loop that never ends: every call can still return.
C16_EveryCallReturns ==
    /\ LockOrder
    /\ fault # "hang"

\* C17: release(p) of a held pointer asks the OS to unmap exactly the region
\* that holds p's block: the range starts at the region's base address and
\* has the region's mapped length.
C17_ReleaseUnmapsWholeRegion ==
    (last.op = "free" /\ last.ptr # NULL) =>
        /\ Len(last.unmap) = 1
        /\ last.unmap[1].addr = RegionOf(BlockOf(last.ptr))
        /\ last.unmap[1].len = MappedLength(RegionOf(BlockOf(last.ptr)))

\* the fresh region's block cannot be split for a request of size: what is
\* left after the request is less than a block header and an alignment unit
Unsplittable(size) ==
    MapSz(size) - SizeofMemRegion - ActualSz(size) < SizeofMemBlock + ALIGN_SZ

\* C18: on a free-list miss where the fresh region's whole block cannot be
\* split, allocate returns that whole block as used and leaves the free list
\* as it was, also when the free list is not empty, and does not read or
\* write through the null tail pointer.
C18_UnsplittableMissKeepsFreeList ==
    [][(/\ last'.op = "malloc" /\ last'.miss /\ ~last'.refused
        /\ Unsplittable(last'.size))
       => (/\ fault' = "none"
           /\ last'.ret = PayloadOf(FirstBlockOf(g_region_tail'))
           /\ ~Hdr(mem', BlockOf(last'.ret)).free
           /\ Hdr(mem', BlockOf(last'.ret)).size
                 = MapSz(last'.size) - SizeofMemRegion
           /\ g_free_list' = g_free_list
           /\ FreeSeq' = FreeSeq)]_vars

\* C19: after any sequence of allocate and release calls the chain of
\* neighbours agrees in both directions: every block whose next_block is n
\* is n's prev_block.
C19_NeighbourLinksAgree ==
    \A b \in DOMAIN mem :
        Hdr(mem, b).next_block # NULL
            => Hdr(mem, Hdr(mem, b).next_block).prev_block = b

\* C20: after any sequence of allocate and release calls every block's size
\* is a multiple of the alignment unit, and the used head made on a
\* free-list miss has exactly the aligned size computed for the request.
C20_BlockSizesAligned ==
    /\ \A b \in DOMAIN mem : Hdr(mem, b).size % ALIGN_SZ = 0
    /\ (/\ last.op = "malloc" /\ last.miss /\ ~last.refused
        /\ fault = "none" /\ ~Unsplittable(last.size))
           => Hdr(mem, BlockOf(last.ret)).size = AlignedSz(last.size)

=============================================================================
